---- MODULE Spec2Model ----
(***************************************************************************)
(* A model of bms-join: the base-36 keysound ID codec (src/src/bms.rs),    *)
(* the line classifier and the Note Line model (src/src/line.rs) and the   *)
(* chart document with its command loop (src/src/main.rs).                 *)
(*                                                                         *)
(* A text is a sequence of one-character strings, so that slicing,         *)
(* searching, parsing and formatting are computed character by character   *)
(* as the Rust code computes them.  Only ASCII text is modelled.           *)
(***************************************************************************)
EXTENDS Integers, Sequences, FiniteSets, TLC

VARIABLES
    cid, ctok, cback, cpc,                  \* codec: id, as_str(id), as_id(as_str(id))
    text, line, lpc, rc, rendered, used, query,   \* one line: input text and what was done to it
    disk, exists,                           \* the chart file: its bytes, and whether it is there
    bms, pc, pending, last                  \* the loaded document, the command loop

codecVars == <<cid, ctok, cback, cpc>>
lineVars  == <<text, line, lpc, rc, rendered, used, query>>
docVars   == <<disk, exists, bms, pc, pending, last>>
vars      == <<cid, ctok, cback, cpc, text, line, lpc, rc, rendered, used, query,
               disk, exists, bms, pc, pending, last>>

Err  == -1

-----------------------------------------------------------------------------
(* Characters *)

Upper36 == <<"0","1","2","3","4","5","6","7","8","9",
             "A","B","C","D","E","F","G","H","I","J","K","L","M",
             "N","O","P","Q","R","S","T","U","V","W","X","Y","Z">>

Lower36 == <<"0","1","2","3","4","5","6","7","8","9",
             "a","b","c","d","e","f","g","h","i","j","k","l","m",
             "n","o","p","q","r","s","t","u","v","w","x","y","z">>

Range(s) == { s[i] : i \in DOMAIN s }

UpperChars == Range(Upper36)
LowerChars == Range(Lower36)
AlnumChars == UpperChars \cup LowerChars

\* The value of each digit character in base 36, either case
DigitValue ==
    [c \in AlnumChars |->
        IF c \in UpperChars
            THEN (CHOOSE i \in DOMAIN Upper36 : Upper36[i] = c) - 1
            ELSE (CHOOSE i \in DOMAIN Lower36 : Lower36[i] = c) - 1]

IsAlnum(c) == c \in AlnumChars

IsWhitespace(c) == c \in {" ", "\t", "\r", "\n"}

\* char::to_uppercase on ASCII
ToUpperChar(c) == IF c \in LowerChars THEN Upper36[DigitValue[c] + 1] ELSE c

to_uppercase(s) == [i \in DOMAIN s |-> ToUpperChar(s[i])]

\* char::to_digit(radix): the digit's value, or Err when it is no digit of the radix
to_digit(c, radix) == IF c \in AlnumChars /\ DigitValue[c] < radix THEN DigitValue[c] ELSE Err

Slice(s, from, to) == SubSeq(s, from + 1, to)     \* Rust's s[from..to], 0-based

RECURSIVE DigitsValue(_, _, _)
DigitsValue(s, radix, acc) ==
    IF s = <<>> THEN acc
    ELSE IF to_digit(Head(s), radix) = Err THEN Err
    ELSE DigitsValue(Tail(s), radix, acc * radix + to_digit(Head(s), radix))

\* u64::from_str_radix / str::parse::<u32> (radix 10): an optional '+', then digits
from_str_radix(s, radix) ==
    IF s = <<>> THEN Err
    ELSE IF Len(s) = 1 /\ s[1] \in {"+", "-"} THEN Err
    ELSE IF s[1] = "+" THEN DigitsValue(Tail(s), radix, 0)
    ELSE DigitsValue(s, radix, 0)

parse_u32(s) == from_str_radix(s, 10)

-----------------------------------------------------------------------------
(* bms.rs: the ID codec *)

as_id(chars) == from_str_radix(to_uppercase(chars), 36)

\* radix_fmt::radix_36: lower-case digits, most significant first, no padding
RECURSIVE radix_36(_)
radix_36(id) ==
    IF id < 36 THEN <<Lower36[id + 1]>>
    ELSE radix_36(id \div 36) \o <<Lower36[(id % 36) + 1]>>

\* An encoding without the padding
as_str_unpadded(id) == to_uppercase(radix_36(id))

\* The fallback of as_str: a single digit gets a "0" in front
PadOne(ret) == IF Len(ret) = 1 THEN <<"0">> \o ret ELSE ret

as_str(id) == PadOne(to_uppercase(radix_36(id)))

-----------------------------------------------------------------------------
(* line.rs: Note *)

\* Regex::is_match of #[A-Za-z0-9]{5}: , which is not anchored: a match may
\* start at any offset p of the line
MatchAt(l, p) ==
    /\ p + 7 <= Len(l)
    /\ l[p + 1] = "#"
    /\ \A k \in 2..6 : IsAlnum(l[p + k])
    /\ l[p + 7] = ":"

line_is_note(l) == \E p \in 0..Len(l) : MatchAt(l, p)

\* str::find(':'): the 0-based offset of the first ':'
find_colon(l) == (CHOOSE i \in DOMAIN l : l[i] = ":" /\ \A j \in 1..(i - 1) : l[j] # ":") - 1

\* The loop of Note::new over body[i..i + 2], i = 0, 2, 4 ...: a chunk that
\* as_id rejects ends the parse with None; a last chunk of one character is a
\* slice past the end of the body, which panics.
RECURSIVE ParseBody(_, _)
ParseBody(body, keysounds) ==
    IF body = <<>> THEN [st |-> "Ok", ks |-> keysounds]
    ELSE IF Len(body) = 1 THEN [st |-> "Panic", ks |-> <<>>]
    ELSE IF as_id(Slice(body, 0, 2)) = Err THEN [st |-> "None", ks |-> <<>>]
    ELSE ParseBody(Slice(body, 2, Len(body)), Append(keysounds, as_id(Slice(body, 0, 2))))

NoNote == [measure |-> 0, channel |-> 0, keysounds |-> <<>>]

\* The end of Note::new: the note of the parsed fields, None or a panic
NoteOf(measure, channel, b) ==
    IF b.st = "Ok"
        THEN [st |-> "Some",
              note |-> [measure |-> measure, channel |-> channel, keysounds |-> b.ks]]
        ELSE [st |-> b.st, note |-> NoNote]

\* Note::new: Some(note), None, or a panic
NoteNew(l) ==
    IF ~line_is_note(l) THEN [st |-> "None", note |-> NoNote]
    ELSE IF parse_u32(Slice(l, 1, 4)) = Err THEN [st |-> "None", note |-> NoNote]
    ELSE IF parse_u32(Slice(l, 4, 6)) = Err THEN [st |-> "None", note |-> NoNote]
    ELSE NoteOf(parse_u32(Slice(l, 1, 4)), parse_u32(Slice(l, 4, 6)),
                ParseBody(Slice(l, find_colon(l) + 1, Len(l)), <<>>))

\* The refusal test of replace_keysounds, with as_id("10") evaluated by the codec
Refused(channel) == channel < as_id(<<"1", "0">>) /\ channel % 36 # 1

\* A refusal that protects every channel below 36
replace_keysounds_low_protected(note, old_id, new_id) ==
    IF note.channel < as_id(<<"1", "0">>)
        THEN [ret |-> "None", note |-> note]
        ELSE [ret |-> "Some",
              note |-> [note EXCEPT !.keysounds =
                          [i \in DOMAIN note.keysounds |->
                              IF note.keysounds[i] = old_id THEN new_id
                              ELSE note.keysounds[i]]]]

\* A filter that lets through only the channels whose low digit is 1
replace_keysounds_mod_only(note, old_id, new_id) ==
    IF note.channel % 36 # 1
        THEN [ret |-> "None", note |-> note]
        ELSE [ret |-> "Some",
              note |-> [note EXCEPT !.keysounds =
                          [i \in DOMAIN note.keysounds |->
                              IF note.keysounds[i] = old_id THEN new_id
                              ELSE note.keysounds[i]]]]

\* Note::replace_keysounds: the returned Option and the note afterwards
replace_keysounds(note, old_id, new_id) ==
    IF Refused(note.channel)
        THEN [ret |-> "None", note |-> note]
        ELSE [ret |-> "Some",
              note |-> [note EXCEPT !.keysounds =
                          [i \in DOMAIN note.keysounds |->
                              IF note.keysounds[i] = old_id THEN new_id
                              ELSE note.keysounds[i]]]]

\* slice::sort, as an insertion sort
RECURSIVE Insert(_, _)
Insert(x, s) ==
    IF s = <<>> THEN <<x>>
    ELSE IF x <= Head(s) THEN <<x>> \o s
    ELSE <<Head(s)>> \o Insert(x, Tail(s))

RECURSIVE sort(_)
sort(s) == IF s = <<>> THEN <<>> ELSE Insert(Head(s), sort(Tail(s)))

\* Vec::dedup: drops an element equal to the one before it
RECURSIVE dedup(_)
dedup(s) ==
    IF Len(s) <= 1 THEN s
    ELSE IF s[1] = s[2] THEN dedup(Tail(s))
    ELSE <<s[1]>> \o dedup(Tail(s))

keysounds_used_unsorted(note) == dedup(note.keysounds)

keysounds_used(note) == dedup(sort(note.keysounds))

Note_uses_keysound(note, keysound_id) == \E i \in DOMAIN note.keysounds : note.keysounds[i] = keysound_id

\* Decimal digits of n, most significant first
RECURSIVE Decimal(_)
Decimal(n) ==
    IF n < 10 THEN <<Upper36[n + 1]>>
    ELSE Decimal(n \div 10) \o <<Upper36[(n % 10) + 1]>>

RECURSIVE PadLeft(_, _, _)
PadLeft(s, width, c) == IF Len(s) >= width THEN s ELSE PadLeft(<<c>> \o s, width, c)

RECURSIVE PadRight(_, _, _)
PadRight(s, width, c) == IF Len(s) >= width THEN s ELSE PadRight(s \o <<c>>, width, c)

RECURSIVE KeysoundsString(_)
KeysoundsString(ks) ==
    IF ks = <<>> THEN <<>>
    ELSE PadRight(as_str(Head(ks)), 2, " ") \o KeysoundsString(Tail(ks))

\* impl Display for Note: "#{:03}{:02}:{}"
NoteToString(note) ==
    <<"#">> \o PadLeft(Decimal(note.measure), 3, "0")
            \o PadLeft(Decimal(note.channel), 2, "0")
            \o <<":">> \o KeysoundsString(note.keysounds)

-----------------------------------------------------------------------------
(* line.rs: Line *)

\* Line::new: a Note, a Generic line holding the text, or a panic out of Note::new
LineOf(l, n) ==
    IF n.st = "Some" THEN [kind |-> "Note", note |-> n.note, line |-> <<>>]
    ELSE IF n.st = "Panic" THEN [kind |-> "Panic", note |-> NoNote, line |-> <<>>]
    ELSE [kind |-> "Generic", note |-> NoNote, line |-> l]

LineNew(l) ==
    IF line_is_note(l) THEN LineOf(l, NoteNew(l))
    ELSE [kind |-> "Generic", note |-> NoNote, line |-> l]

RECURSIVE trim_end(_)
trim_end(s) ==
    IF s # <<>> /\ IsWhitespace(s[Len(s)]) THEN trim_end(SubSeq(s, 1, Len(s) - 1)) ELSE s

\* impl Display for Line
LineToString(ln) ==
    IF ln.kind = "Generic" THEN trim_end(ln.line) ELSE NoteToString(ln.note)

-----------------------------------------------------------------------------
(* main.rs: Keysound and BMSFile *)

starts_with(l, prefix) == Len(l) >= Len(prefix) /\ SubSeq(l, 1, Len(prefix)) = prefix

RECURSIVE SplitFrom(_, _, _, _)
\* The pieces of s from position i on, piece being the one under way
SplitFrom(s, c, i, piece) ==
    IF i > Len(s) THEN <<piece>>
    ELSE IF s[i] = c THEN <<piece>> \o SplitFrom(s, c, i + 1, <<>>)
    ELSE SplitFrom(s, c, i + 1, Append(piece, s[i]))

\* str::split(c): the pieces between the separators, empty ones included
split(s, c) == SplitFrom(s, c, 1, <<>>)

StripCR(l) == IF l # <<>> /\ l[Len(l)] = "\r" THEN SubSeq(l, 1, Len(l) - 1) ELSE l

DropLastEmpty(pieces) ==
    IF pieces[Len(pieces)] = <<>> THEN SubSeq(pieces, 1, Len(pieces) - 1) ELSE pieces

StripAll(ls) == [i \in DOMAIN ls |-> StripCR(ls[i])]

\* BufRead::lines: the text cut at each "\n", a "\r" before it dropped too; text
\* after the last "\n" is a line only when it is not empty
lines(bytes) == StripAll(DropLastEmpty(split(bytes, "\n")))

RECURSIVE join(_, _)
join(strs, sep) ==
    IF strs = <<>> THEN <<>>
    ELSE IF Len(strs) = 1 THEN strs[1]
    ELSE strs[1] \o sep \o join(Tail(strs), sep)

NoKeysound == [keysound_id |-> 0, keysound_file |-> <<>>]

\* Keysound::from_line: line[4..6] and line[7..] panic on a line that short
KeysoundFromLine(l) ==
    IF Len(l) < 7 THEN [st |-> "Panic", ks |-> NoKeysound]
    ELSE IF as_id(Slice(l, 4, 6)) = Err THEN [st |-> "Err", ks |-> NoKeysound]
    ELSE [st |-> "Ok",
          ks |-> [keysound_id |-> as_id(Slice(l, 4, 6)), keysound_file |-> Slice(l, 7, Len(l))]]

\* impl Display for Keysound
KeysoundToString(ks) == <<"#", "W", "A", "V">> \o as_str(ks.keysound_id) \o <<" ">> \o ks.keysound_file

EmptyDoc == [st |-> "Ok", head |-> <<>>, keysounds |-> <<>>, tail |-> <<>>]
PanicDoc == [st |-> "Panic", head |-> <<>>, keysounds |-> <<>>, tail |-> <<>>]

\* The for_each of from_path: a #WAV line joins keysounds wherever it stands,
\* any other line joins head while keysounds is empty and tail afterwards
\* The closure of from_path on one line: a #WAV line joins keysounds wherever it
\* stands, any other line joins head while keysounds is empty and tail afterwards;
\* k and n are Keysound::from_line and Line::new of the line
PushLine(doc, is_wav, k, n) ==
    IF is_wav
        THEN IF k.st # "Ok" THEN PanicDoc ELSE [doc EXCEPT !.keysounds = Append(@, k.ks)]
    ELSE IF n.kind = "Panic" THEN PanicDoc
    ELSE IF doc.keysounds = <<>> THEN [doc EXCEPT !.head = Append(@, n)]
    ELSE [doc EXCEPT !.tail = Append(@, n)]

RECURSIVE LoadLines(_, _, _)
\* The for_each of from_path over the lines from position i on; a panic ends it
LoadLines(ls, i, doc) ==
    IF i > Len(ls) \/ doc.st # "Ok" THEN doc
    ELSE LoadLines(ls, i + 1,
                   PushLine(doc, starts_with(ls[i], <<"#", "W", "A", "V">>),
                            KeysoundFromLine(ls[i]), LineNew(ls[i])))

\* BMSFile::from_path: fs::File::open(path).expect(...) panics when the file is
\* not there, then the lines are loaded: a document, or a panic; never Err
from_path(file_exists, bytes) ==
    IF ~file_exists THEN PanicDoc ELSE LoadLines(lines(bytes), 1, EmptyDoc)

\* The strings to_bytes collects: head, then keysounds, then tail
strings(doc) ==
    [i \in DOMAIN doc.head |-> LineToString(doc.head[i])]
        \o [i \in DOMAIN doc.keysounds |-> KeysoundToString(doc.keysounds[i])]
        \o [i \in DOMAIN doc.tail |-> LineToString(doc.tail[i])]

to_bytes(doc) == join(strings(doc), <<"\n">>)

has_keysound(doc, keysound_id) ==
    \E i \in DOMAIN doc.keysounds : doc.keysounds[i].keysound_id = keysound_id

\* A usage test that also looks at the Note Lines of head
BMSFile_uses_keysound_anywhere(doc, keysound_id) ==
    /\ has_keysound(doc, keysound_id)
    /\ \E i \in DOMAIN (doc.head \o doc.tail) :
          /\ (doc.head \o doc.tail)[i].kind = "Note"
          /\ Note_uses_keysound((doc.head \o doc.tail)[i].note, keysound_id)

BMSFile_uses_keysound(doc, keysound_id) ==
    /\ has_keysound(doc, keysound_id)
    /\ \E i \in DOMAIN doc.tail :
          /\ doc.tail[i].kind = "Note"
          /\ Note_uses_keysound(doc.tail[i].note, keysound_id)

RECURSIVE FilterFrom(_, _, _)
FilterFrom(s, keep, i) ==
    IF i > Len(s) THEN <<>>
    ELSE IF i \in keep THEN <<s[i]>> \o FilterFrom(s, keep, i + 1)
    ELSE FilterFrom(s, keep, i + 1)

\* Iterator::filter / Vec::retain over a sequence, by the set of positions to keep
Filter(s, keep) == FilterFrom(s, keep, 1)

get_unused_keysounds(doc) ==
    Filter(doc.keysounds,
           { i \in DOMAIN doc.keysounds :
                ~BMSFile_uses_keysound(doc, doc.keysounds[i].keysound_id) })

\* BMSFile::reload: the fresh parse swapped in, the regions cleared on Err;
\* a panic of from_path passes through
Swap(doc, new_bms) == IF new_bms.st = "Err" THEN [EmptyDoc EXCEPT !.st = "Err"] ELSE new_bms

reload(doc, file_exists, bytes) == Swap(doc, from_path(file_exists, bytes))

\* A rewrite that leaves the declaration table alone
Rewrite_keep_declaration(doc, old_id, new_id) ==
    [doc EXCEPT !.tail =
        [i \in DOMAIN doc.tail |->
            IF doc.tail[i].kind = "Note"
                THEN [doc.tail[i] EXCEPT !.note = replace_keysounds(@, old_id, new_id).note]
                ELSE doc.tail[i]]]

\* The body of the Replace command for one old_id: retain, then replace_keysounds
\* on every Note Line of tail, its result dropped
Rewrite(doc, old_id, new_id) ==
    [doc EXCEPT
        !.keysounds = Filter(@, { i \in DOMAIN @ : @[i].keysound_id # old_id }),
        !.tail =
            [i \in DOMAIN doc.tail |->
                IF doc.tail[i].kind = "Note"
                    THEN [doc.tail[i] EXCEPT !.note = replace_keysounds(@, old_id, new_id).note]
                    ELSE doc.tail[i]]]

RECURSIVE RewriteAll(_, _, _)
\* ids.iter().for_each(...)
RewriteAll(doc, ids, new_id) ==
    IF ids = <<>> THEN doc
    ELSE RewriteAll(Rewrite(doc, Head(ids), new_id), Tail(ids), new_id)

\* A collect that drops the strings that do not decode
MapAsId_skip_bad(strs) ==
    [ok |-> TRUE,
     ids |-> [i \in DOMAIN SelectSeq(strs, LAMBDA x : as_id(x) # Err) |->
                 as_id(SelectSeq(strs, LAMBDA x : as_id(x) # Err)[i])]]

\* id_list.iter().map(as_id).collect::<Result<Vec<u64>, _>>(): Err if any is Err
MapAsId(strs) ==
    IF \E i \in DOMAIN strs : as_id(strs[i]) = Err THEN [ok |-> FALSE, ids |-> <<>>]
    ELSE [ok |-> TRUE, ids |-> [i \in DOMAIN strs |-> as_id(strs[i])]]

-----------------------------------------------------------------------------
(* Bounds and the inputs drawn from them *)

MaxSlots == 2          \* generated Note Line bodies have at most this many slot tokens

MaxId == 36 * 36 - 1   \* the largest value of a two-character base-36 token

SU == <<"S", "U">>
SV == <<"S", "V">>
S2S3S4S5 == <<"S", "2", "S", "3", "S", "4", "S", "5">>
H7I7P7 == <<"7", "H", "7", "I", "7", "P">>

\* The lines of the tests of line.rs and of the spec's examples
ConcreteLines ==
    { <<"#", "0", "9", "5", "0", "1", ":">> \o S2S3S4S5 \o S2S3S4S5 \o S2S3S4S5 \o S2S3S4S5,
      <<"#", "0", "5", "0", "1", "4", ":">> \o H7I7P7 \o H7I7P7 \o <<"7", "K", "7", "I", "7", "P">>
          \o H7I7P7 \o H7I7P7 \o <<"7", "H">>,
      <<"#", "0", "5", "2", "0", "1", ":", "0", "0", "0", "0">> \o SU
          \o <<"0", "0", "0", "0">> \o SV \o <<"0", "0", "0", "0">>,
      <<"#", "A", "B", "C", "D", "E", ":">>,
      <<"#", "T", "I", "T", "L", "E", " ", "a", ":", "b", " ">>,
      <<>> }

Prefixes == { <<>>, <<"x">>, <<"x", "0", "0", "1", "4", "2">> }
Measures == { <<"0", "0", "1">>, <<"0", "5", "2">>, <<"A", "B", "C">> }
Channels == { <<"0", "1">>, <<"0", "2">>, <<"1", "1">>, <<"3", "6">>, <<"3", "7">>, <<"1", "A">> }
SlotTokens == { <<"0", "0">>, SU, SV, <<"s", "u">>, <<"0", "!">> }
Tails == { <<>>, <<"0">>, <<" ">> }

RECURSIVE BodiesOfLen(_)
BodiesOfLen(k) ==
    IF k = 0 THEN { <<>> }
    ELSE { t \o b : t \in SlotTokens, b \in BodiesOfLen(k - 1) }

Bodies == UNION { BodiesOfLen(k) : k \in 0..MaxSlots }

\* prefix, '#', measure, channel, ':', slot tokens, tail
GeneratedLines ==
    { p \o <<"#">> \o m \o c \o <<":">> \o b \o t :
        p \in Prefixes, m \in Measures, c \in Channels, b \in Bodies, t \in Tails }

LineInputs == ConcreteLines \cup GeneratedLines

\* The IDs used as old_id, new_id and keysound_id
RepIds == { 0, as_id(SU), as_id(SV) }
QueryIds == RepIds \cup { as_id(<<"S", "1">>), as_id(<<"S", "2">>), as_id(<<"S", "6">>) }

MaxLines == 3          \* a chart file has at most this many lines

\* The lines a chart file is made of: an opaque line, declarations of 01, 02
\* and 03, Note Lines on channels 01 and 11, a declaration cut short
FileLines ==
    { <<"*", "x", " ">>,
      <<"#", "W", "A", "V", "0", "1", " ", "a">>,
      <<"#", "W", "A", "V", "0", "2", " ", "b">>,
      <<"#", "W", "A", "V", "0", "3", " ", "c">>,
      <<"#", "0", "0", "1", "0", "1", ":", "0", "1", "0", "2">>,
      <<"#", "0", "0", "1", "1", "1", ":", "0", "2", "0", "1">>,
      <<"#", "W", "A", "V", "0">> }

RECURSIVE FilesOfLen(_)
FilesOfLen(k) ==
    IF k = 0 THEN { <<>> }
    ELSE { l \o <<"\n">> \o f : l \in FileLines, f \in FilesOfLen(k - 1) }

\* Every line of a file ends with "\n"
Files == UNION { FilesOfLen(k) : k \in 0..MaxLines }

\* What the user's editor may leave in the chart file while the program runs:
\* the declaration of 01 dropped, a declaration cut short
EditedFiles ==
    { <<"#", "W", "A", "V", "0", "2", " ", "b", "\n",
        "#", "0", "0", "1", "1", "1", ":", "0", "2", "0", "1", "\n">>,
      <<"#", "W", "A", "V", "0", "\n">> }

\* What the user types at the two prompts of the Replace command
NewIdLines == { <<"0", "1">>, <<"2">>, <<"0", "!">> }
IdListLines ==
    { <<"0", "1">>, <<"0", "2">>, <<"0", "3">>, <<"0", "1", ",", "0", "2">>,
      <<"0", "2", ",", "0", "1">>, <<"0", "1", ",">>, <<>> }

\* What the last command's bms.reload() saw and left: no call yet
NoReload == [called |-> FALSE, file_exists |-> TRUE, bytes |-> <<>>, doc |-> EmptyDoc]

NoLast ==
    [cmd |-> "None", outcome |-> "None", ids |-> <<>>, new_id |-> 0,
     before |-> EmptyDoc, unused |-> <<>>, reloaded |-> NoReload, save_called |-> FALSE,
     new_id_line |-> <<>>, id_list |-> <<>>]

DocIdle ==
    /\ disk = <<>> /\ exists = TRUE /\ bms = EmptyDoc /\ pc = "idle"
    /\ pending = <<>> /\ last = NoLast

NoLine == [kind |-> "Generic", note |-> NoNote, line |-> <<>>]
NoCall == [old_id |-> 0, new_id |-> 0, ret |-> "None", before |-> NoNote]
NoQuery == [keysound_id |-> 0, ret |-> FALSE]

CodecIdle == cid = 0 /\ ctok = <<>> /\ cback = 0 /\ cpc = "idle"
LineIdle ==
    /\ text = <<>> /\ line = NoLine /\ lpc = "idle" /\ rc = NoCall
    /\ rendered = <<>> /\ used = <<>> /\ query = NoQuery

-----------------------------------------------------------------------------
(* The codec applied to every ID *)

CodecInit ==
    /\ cid \in 0..MaxId
    /\ ctok = <<>> /\ cback = 0 /\ cpc = "start"
    /\ LineIdle /\ DocIdle

Encode ==
    /\ cpc = "start"
    /\ ctok' = as_str(cid)
    /\ cpc' = "encoded"
    /\ UNCHANGED <<cid, cback, lineVars, docVars>>

Decode ==
    /\ cpc = "encoded"
    /\ cback' = as_id(ctok)
    /\ cpc' = "decoded"
    /\ UNCHANGED <<cid, ctok, lineVars, docVars>>

CodecNext == Encode \/ Decode

SpecCodec == CodecInit /\ [][CodecNext]_vars

-----------------------------------------------------------------------------
(* One line: classified, then rewritten, rendered or queried *)

LineInit ==
    /\ text \in LineInputs
    /\ line = NoLine /\ lpc = "start" /\ rc = NoCall
    /\ rendered = <<>> /\ used = <<>> /\ query = NoQuery
    /\ CodecIdle /\ DocIdle

\* Line::new(text)
Classify ==
    /\ lpc = "start"
    /\ line' = LineNew(text)
    /\ lpc' = IF line'.kind = "Panic" THEN "panicked" ELSE "parsed"
    /\ UNCHANGED <<text, rc, rendered, used, query, codecVars, docVars>>

\* note.replace_keysounds(old_id, new_id), once
Replace(old_id, new_id) ==
    /\ lpc = "parsed"
    /\ line.kind = "Note"
    /\ LET r == replace_keysounds(line.note, old_id, new_id)
       IN  /\ line' = [line EXCEPT !.note = r.note]
           /\ rc' = [old_id |-> old_id, new_id |-> new_id, ret |-> r.ret, before |-> line.note]
    /\ lpc' = "replaced"
    /\ UNCHANGED <<text, rendered, used, query, codecVars, docVars>>

\* line.to_string()
Render ==
    /\ lpc \in {"parsed", "replaced"}
    /\ rendered' = LineToString(line)
    /\ lpc' = IF lpc = "parsed" THEN "rendered" ELSE "rendered_replaced"
    /\ UNCHANGED <<text, line, rc, used, query, codecVars, docVars>>

\* note.keysounds_used() and note.uses_keysound(keysound_id)
Usage(keysound_id) ==
    /\ lpc = "parsed"
    /\ line.kind = "Note"
    /\ used' = keysounds_used(line.note)
    /\ query' = [keysound_id |-> keysound_id, ret |-> Note_uses_keysound(line.note, keysound_id)]
    /\ lpc' = "queried"
    /\ UNCHANGED <<text, line, rc, rendered, codecVars, docVars>>

LineNext ==
    \/ Classify
    \/ \E old_id \in RepIds, new_id \in RepIds : Replace(old_id, new_id)
    \/ Render
    \/ \E keysound_id \in QueryIds : Usage(keysound_id)

SpecLine == LineInit /\ [][LineNext]_vars

-----------------------------------------------------------------------------
(* The program: the chart file is loaded, then commands are served *)

\* main up to the loop: BMSFile::from_path(&bms_path).expect(...)
\* (fs::copy(...).expect(...) before it needs the file to be there)
Init ==
    /\ disk \in Files
    /\ exists = TRUE
    /\ bms = from_path(exists, disk)
    /\ pc = IF bms.st = "Ok" THEN "menu" ELSE "crashed"
    /\ pending = <<>> /\ last = NoLast
    /\ CodecIdle /\ LineIdle

\* bms.reload() of the running command: the file it read and the document it left
Reloaded(doc) == [called |-> TRUE, file_exists |-> exists, bytes |-> disk, doc |-> doc]

\* What the user typed at the prompts of the Replace command: get_string() and
\* get_strings(',')
NoTyped == [new_id_line |-> <<>>, id_list |-> <<>>]
Typed(new_id_line, id_list) == [new_id_line |-> new_id_line, id_list |-> id_list]

\* The command ends without a write: `continue`, or a panic; rl is its reload
Abort(cmd, outcome, doc, rl, typed) ==
    /\ bms' = doc
    /\ pc' = IF doc.st = "Panic" THEN "crashed" ELSE "menu"
    /\ last' = [NoLast EXCEPT !.cmd = cmd, !.outcome = outcome, !.reloaded = rl,
                              !.new_id_line = typed.new_id_line, !.id_list = typed.id_list]
    /\ pending' = <<>>
    /\ UNCHANGED <<disk, exists>>

\* fs::write(&self.path, self.to_bytes()): the bytes written, or an error that
\* leaves the file as it was or truncated
Save(doc, written) ==
    \/ written /\ disk' = to_bytes(doc) /\ exists' = TRUE
    \/ ~written /\ disk' \in {disk, <<>>} /\ exists' = TRUE

\* Command::Replace up to the second prompt, doc being bms.reload(): the new ID
\* is read and decoded, the file reloaded and the ID looked up
ReplaceAskNewOn(doc, new_id_line, id) ==
    IF id = Err THEN Abort("Replace", "bad_new_id", bms, NoReload, Typed(new_id_line, <<>>))
    ELSE IF doc.st # "Ok"
        THEN Abort("Replace", "reload_failed", doc, Reloaded(doc), Typed(new_id_line, <<>>))
    ELSE IF ~has_keysound(doc, id)
        THEN Abort("Replace", "no_new_keysound", doc, Reloaded(doc), Typed(new_id_line, <<>>))
    ELSE /\ bms' = doc
         /\ pc' = "ask_ids"
         /\ pending' = new_id_line
         /\ last' = [NoLast EXCEPT !.cmd = "Replace", !.outcome = "asking",
                                   !.reloaded = Reloaded(doc), !.new_id_line = new_id_line]
         /\ UNCHANGED <<disk, exists>>

ReplaceAskNew ==
    /\ pc = "menu"
    /\ \E new_id_line \in NewIdLines :
          ReplaceAskNewOn(reload(bms, exists, disk), new_id_line, as_id(new_id_line))
    /\ UNCHANGED <<codecVars, lineVars>>

\* Command::Replace from the second prompt on, doc being the second bms.reload():
\* the old IDs are read, the IDs are validated, every old ID is rewritten, the
\* file is saved
ReplaceAskIdsOn(doc, id, id_list, res_ids, new_id, written) ==
    IF doc.st # "Ok"
        THEN Abort("Replace", "reload_failed", doc, Reloaded(doc), Typed(pending, id_list))
    ELSE IF ~has_keysound(doc, id)
        THEN Abort("Replace", "no_new_keysound", doc, Reloaded(doc), Typed(pending, id_list))
    ELSE IF ~res_ids.ok
        THEN Abort("Replace", "bad_ids", doc, Reloaded(doc), Typed(pending, id_list))
    ELSE IF \E i \in DOMAIN res_ids.ids : ~has_keysound(doc, res_ids.ids[i])
        THEN Abort("Replace", "missing_ids", doc, Reloaded(doc), Typed(pending, id_list))
    ELSE IF new_id = Err
        THEN Abort("Replace", "bad_new_id", doc, Reloaded(doc), Typed(pending, id_list))
    ELSE /\ bms' = RewriteAll(doc, res_ids.ids, new_id)
         /\ Save(bms', written)
         /\ pc' = "menu"
         /\ pending' = <<>>
         /\ last' = [cmd |-> "Replace",
                     outcome |-> IF written THEN "saved" ELSE "save_failed",
                     ids |-> res_ids.ids, new_id |-> new_id,
                     before |-> doc, unused |-> <<>>,
                     reloaded |-> Reloaded(doc), save_called |-> TRUE,
                     new_id_line |-> pending, id_list |-> id_list]

ReplaceAskIds ==
    /\ pc = "ask_ids"
    /\ \E id_list_line \in IdListLines, written \in BOOLEAN :
          ReplaceAskIdsOn(reload(bms, exists, disk), as_id(pending),
                          split(id_list_line, ","), MapAsId(split(id_list_line, ",")),
                          as_id(to_uppercase(pending)), written)
    /\ UNCHANGED <<codecVars, lineVars>>

KeysoundIds(keysounds) == { keysounds[i].keysound_id : i \in DOMAIN keysounds }

\* Command::RemoveUnusedKeysounds, doc being bms.reload() and unused_keysounds
\* its get_unused_keysounds(): choice and delete_files are the two answers,
\* undeletable the IDs whose audio file cannot be removed
RemoveUnusedKeysoundsOn(doc, unused_keysounds, unused_ids) ==
    IF doc.st # "Ok"
        THEN Abort("RemoveUnusedKeysounds", "reload_failed", doc, Reloaded(doc), NoTyped)
    ELSE IF unused_keysounds = <<>>
        THEN Abort("RemoveUnusedKeysounds", "none_unused", doc, Reloaded(doc), NoTyped)
    ELSE \E choice \in BOOLEAN, delete_files \in BOOLEAN,
            undeletable \in SUBSET unused_ids, written \in BOOLEAN :
           IF ~choice
               THEN /\ bms' = doc
                    /\ pc' = "menu" /\ pending' = <<>>
                    /\ last' = [NoLast EXCEPT !.cmd = "RemoveUnusedKeysounds",
                                              !.outcome = "declined",
                                              !.before = doc, !.unused = unused_keysounds,
                                              !.reloaded = Reloaded(doc)]
                    /\ UNCHANGED <<disk, exists>>
               ELSE /\ bms' = [doc EXCEPT !.keysounds =
                                 Filter(@, { i \in DOMAIN @ :
                                     \/ @[i].keysound_id \notin unused_ids
                                     \/ delete_files /\ @[i].keysound_id \in undeletable })]
                    /\ Save(bms', written)
                    /\ pc' = "menu" /\ pending' = <<>>
                    /\ last' = [NoLast EXCEPT
                                  !.cmd = "RemoveUnusedKeysounds",
                                  !.outcome = IF written THEN "saved" ELSE "save_failed",
                                  !.before = doc, !.unused = unused_keysounds,
                                  !.reloaded = Reloaded(doc), !.save_called = TRUE]

RemoveUnusedKeysoundsWith(doc, unused_keysounds) ==
    RemoveUnusedKeysoundsOn(doc, unused_keysounds, KeysoundIds(unused_keysounds))

RemoveUnusedKeysounds ==
    /\ pc = "menu"
    /\ RemoveUnusedKeysoundsWith(reload(bms, exists, disk),
                                 get_unused_keysounds(reload(bms, exists, disk)))
    /\ UNCHANGED <<codecVars, lineVars>>

\* Command::RemoveUnusedFiles, doc being bms.reload(); the rest touches audio
\* files only
RemoveUnusedFilesOn(doc) ==
    IF doc.st # "Ok" THEN Abort("RemoveUnusedFiles", "reload_failed", doc, Reloaded(doc), NoTyped)
    ELSE Abort("RemoveUnusedFiles", "done", doc, Reloaded(doc), NoTyped)

RemoveUnusedFiles ==
    /\ pc = "menu"
    /\ RemoveUnusedFilesOn(reload(bms, exists, disk))
    /\ UNCHANGED <<codecVars, lineVars>>

\* Command::Quit
Quit ==
    /\ pc = "menu"
    /\ pc' = "quit"
    /\ last' = [NoLast EXCEPT !.cmd = "Quit"]
    /\ UNCHANGED <<disk, exists, bms, pending, codecVars, lineVars>>

\* The user removes the chart file while the program waits at a prompt
Unlink ==
    /\ pc \in {"menu", "ask_ids"}
    /\ exists
    /\ exists' = FALSE
    /\ disk' = <<>>
    /\ UNCHANGED <<bms, pc, pending, last, codecVars, lineVars>>

\* The user saves the chart file from an editor while the program waits at a
\* prompt
Edit ==
    /\ pc \in {"menu", "ask_ids"}
    /\ \E bytes \in EditedFiles :
          /\ ~exists \/ bytes # disk
          /\ disk' = bytes
    /\ exists' = TRUE
    /\ UNCHANGED <<bms, pc, pending, last, codecVars, lineVars>>

Next ==
    \/ ReplaceAskNew
    \/ ReplaceAskIds
    \/ RemoveUnusedKeysounds
    \/ RemoveUnusedFiles
    \/ Quit
    \/ Unlink
    \/ Edit

Spec == Init /\ [][Next]_vars

-----------------------------------------------------------------------------
(* Properties of the codec (SpecCodec) *)

\* C5: for every id in [0, 1295], as_str(id) is exactly two characters, each an
\* upper-case letter or a digit, with a "0" in front of a single digit, and
\* as_id(as_str(id)) = id.
C5_CodecRoundTrip ==
    /\ cpc \in {"encoded", "decoded"} =>
          /\ Len(ctok) = 2
          /\ \A i \in DOMAIN ctok : ctok[i] \in UpperChars
          /\ cid < 36 => ctok[1] = "0"
    /\ cpc = "decoded" => cback = cid

C5_Witness == cpc = "decoded" /\ cid = 10 /\ ctok = <<"0", "A">> /\ cback = 10

-----------------------------------------------------------------------------
(* Properties of one line (SpecLine) *)

IsDecimalDigit(c) == c \in {"0", "1", "2", "3", "4", "5", "6", "7", "8", "9"}

\* The Note Line grammar: '#', 3 decimal digits, 2 base-36 characters, ':',
\* N two-character base-36 tokens, in canonical (upper-case) form
WellFormedNoteLine(l) ==
    /\ Len(l) >= 7
    /\ l[1] = "#"
    /\ \A k \in 2..4 : IsDecimalDigit(l[k])
    /\ \A k \in 5..6 : l[k] \in UpperChars
    /\ l[7] = ":"
    /\ (Len(l) - 7) % 2 = 0
    /\ \A k \in 8..Len(l) : l[k] \in UpperChars

Replaced == lpc \in {"replaced", "rendered_replaced"}

\* C1: a well-formed Note Line text parses as a Note Line, and the parsed line
\* serializes to exactly the text.
C1_NoteLineRoundTrip ==
    WellFormedNoteLine(text) =>
        /\ lpc # "start" => line.kind = "Note"
        /\ lpc = "rendered" => rendered = text

\* C2: replace_keysounds refuses, and leaves the note as it was, iff channel < 36
\* and channel mod 36 # 1; on every other channel it succeeds, every slot equal
\* to old_id becomes new_id, and the other slots, the slot count, the measure
\* and the channel stay.
C2_ChannelFilterExact ==
    Replaced =>
        /\ rc.ret = "None" <=> (rc.before.channel < 36 /\ rc.before.channel % 36 # 1)
        /\ rc.ret = "None" => line.note = rc.before
        /\ rc.ret = "Some" =>
              /\ line.note.measure = rc.before.measure
              /\ line.note.channel = rc.before.channel
              /\ Len(line.note.keysounds) = Len(rc.before.keysounds)
              /\ \A i \in DOMAIN rc.before.keysounds :
                    line.note.keysounds[i] =
                        IF rc.before.keysounds[i] = rc.old_id THEN rc.new_id
                        ELSE rc.before.keysounds[i]

C2_Witness ==
    /\ lpc = "replaced"
    /\ rc.ret = "Some"
    /\ rc.before.channel >= 36 /\ rc.before.channel % 36 # 1
    /\ rc.old_id # rc.new_id
    /\ \E i \in DOMAIN rc.before.keysounds : rc.before.keysounds[i] = rc.old_id

Line05201 ==
    <<"#", "0", "5", "2", "0", "1", ":", "0", "0", "0", "0">> \o SU
        \o <<"0", "0", "0", "0">> \o SV \o <<"0", "0", "0", "0">>

\* C3, as stated: replace_keysounds never modifies a Note Line on channel 01
\* and reports a refusal; #05201:0000SU0000SV0000 is textually unchanged by
\* replace_keysounds(SU, SV).
C3_Channel01Protected ==
    /\ (Replaced /\ rc.before.channel = 1) => (rc.ret = "None" /\ line.note = rc.before)
    /\ (lpc = "rendered_replaced" /\ text = Line05201
            /\ rc.old_id = as_id(SU) /\ rc.new_id = as_id(SV)) => rendered = text

\* C3, amended: replace_keysounds never refuses a Note Line on channel 01: it
\* returns success and every slot equal to old_id becomes new_id;
\* #05201:0000SU0000SV0000 becomes #05201:0000SV0000SV0000 by
\* replace_keysounds(SU, SV).
C3_Channel01Eligible ==
    /\ (Replaced /\ rc.before.channel = 1) =>
          /\ rc.ret = "Some"
          /\ \A i \in DOMAIN rc.before.keysounds :
                line.note.keysounds[i] =
                    IF rc.before.keysounds[i] = rc.old_id THEN rc.new_id
                    ELSE rc.before.keysounds[i]
    /\ (lpc = "rendered_replaced" /\ text = Line05201
            /\ rc.old_id = as_id(SU) /\ rc.new_id = as_id(SV)) =>
          rendered = <<"#", "0", "5", "2", "0", "1", ":", "0", "0", "0", "0">> \o SV
                        \o <<"0", "0", "0", "0">> \o SV \o <<"0", "0", "0", "0">>

C3_Witness ==
    /\ lpc = "rendered_replaced"
    /\ text = Line05201
    /\ rc.before.channel = 1
    /\ rc.old_id = as_id(SU) /\ rc.new_id = as_id(SV)
    /\ rendered # text

\* The text after the first ':' has an odd number of characters
OddBody(l) == (\E i \in DOMAIN l : l[i] = ":") /\ (Len(l) - (find_colon(l) + 1)) % 2 = 1

\* C4: Line::new returns a Note Line or an Opaque line for every text and never
\* panics; a line with the note prefix and a body of odd length is Opaque.
C4_ClassificationTotal ==
    lpc # "start" =>
        /\ line.kind \in {"Note", "Generic"}
        /\ (MatchAt(text, 0) /\ OddBody(text)) => line.kind = "Generic"

\* C9: keysounds_used() is the distinct IDs of the slots, each once, ascending;
\* uses_keysound(id) holds iff id occurs in the slots, iff id is in
\* keysounds_used(); S2S3S4S5 four times over gives 4 IDs, and neither S1 nor S6
\* is used.
C9_UsageExtraction ==
    lpc = "queried" =>
        /\ \A i \in 1..(Len(used) - 1) : used[i] < used[i + 1]
        /\ Range(used) = Range(line.note.keysounds)
        /\ query.ret <=> query.keysound_id \in Range(line.note.keysounds)
        /\ query.ret <=> query.keysound_id \in Range(used)
        /\ text = <<"#", "0", "9", "5", "0", "1", ":">>
                    \o S2S3S4S5 \o S2S3S4S5 \o S2S3S4S5 \o S2S3S4S5 =>
              /\ Len(used) = 4
              /\ query.keysound_id \in {as_id(<<"S", "1">>), as_id(<<"S", "6">>)} => ~query.ret

C9_Witness ==
    /\ lpc = "queried"
    /\ Len(line.note.keysounds) = 16
    /\ Len(used) = 4
    /\ query.keysound_id = as_id(<<"S", "1">>) /\ ~query.ret

\* C10: a line is a Note Line only if '#' is its first character and ':' its
\* seventh; any other line is Opaque and is serialized as it is, trailing
\* whitespace trimmed.
C10_AnchoredGrammar ==
    (lpc # "start" /\ ~MatchAt(text, 0)) =>
        /\ line.kind = "Generic"
        /\ lpc = "rendered" => rendered = trim_end(text)

\* C11: the channel of a parsed Note Line is the base-36 decoding of characters
\* 4-5 of the line: every well-formed line, whatever its two base-36 channel
\* characters, is a Note Line with that channel (token 11 gives 37), and a
\* line whose channel token ends in 1 is not refused by replace_keysounds.
C11_ChannelBase36 ==
    WellFormedNoteLine(text) =>
        /\ lpc # "start" =>
              /\ line.kind = "Note"
              /\ line.note.channel = as_id(Slice(text, 4, 6))
        /\ (Replaced /\ text[6] = "1") => rc.ret = "Some"

-----------------------------------------------------------------------------
(* Properties of the program (Spec) *)

Completed == last.outcome \in {"saved", "save_failed"}

SlotsOf(ln) == IF ln.kind = "Note" THEN Range(ln.note.keysounds) ELSE {}

ChannelRefused(ln) == ln.kind = "Note" /\ ln.note.channel < 36 /\ ln.note.channel % 36 # 1

\* C6: after the rewrite of the Replace command no declaration of an old ID is
\* left, whether or not an occurrence was refused; the Note Lines of tail on
\* eligible channels hold no old ID other than the new ID, and those on refused
\* channels are as they were, so they may hold an ID that is no longer declared.
C6_RewriteRemovesDeclaration ==
    (last.cmd = "Replace" /\ Completed) =>
        /\ \A k \in DOMAIN last.ids :
              \A i \in DOMAIN bms.keysounds : bms.keysounds[i].keysound_id # last.ids[k]
        /\ bms.head = last.before.head
        /\ Len(bms.tail) = Len(last.before.tail)
        /\ \A i \in DOMAIN bms.tail :
              /\ bms.tail[i].kind = last.before.tail[i].kind
              /\ (bms.tail[i].kind = "Generic" \/ ChannelRefused(last.before.tail[i]))
                    => bms.tail[i] = last.before.tail[i]
              /\ (bms.tail[i].kind = "Note" /\ ~ChannelRefused(last.before.tail[i])) =>
                    \A k \in DOMAIN last.ids :
                        last.ids[k] # last.new_id => last.ids[k] \notin SlotsOf(bms.tail[i])

C6_Witness ==
    /\ last.cmd = "Replace" /\ last.outcome = "saved"
    /\ \E k \in DOMAIN last.ids, i \in DOMAIN bms.tail :
          /\ last.ids[k] # last.new_id
          /\ ChannelRefused(bms.tail[i])
          /\ last.ids[k] \in SlotsOf(bms.tail[i])
          /\ \A j \in DOMAIN bms.keysounds : bms.keysounds[j].keysound_id # last.ids[k]

UsedInTail(doc, keysound_id) == \E i \in DOMAIN doc.tail : keysound_id \in SlotsOf(doc.tail[i])

NotUsedInTail(doc) ==
    SelectSeq(doc.keysounds, LAMBDA keysound : ~UsedInTail(doc, keysound.keysound_id))

\* C7: get_unused_keysounds returns exactly the declarations whose ID occurs in
\* no slot of a Note Line of tail, in declaration order, and the empty sequence
\* if there is none.
C7_UnusedExact ==
    /\ (last.cmd = "RemoveUnusedKeysounds" /\ last.outcome \in {"declined", "saved", "save_failed"})
          => last.unused = NotUsedInTail(last.before)
    /\ (last.cmd = "RemoveUnusedKeysounds" /\ last.outcome = "none_unused")
          => NotUsedInTail(bms) = <<>>

C7_Witness ==
    /\ last.cmd = "RemoveUnusedKeysounds" /\ last.outcome = "declined"
    /\ Len(last.unused) = 1
    /\ Len(last.before.keysounds) = 2
    /\ last.unused[1] = last.before.keysounds[2]
    /\ UsedInTail(last.before, last.before.keysounds[1].keysound_id)

\* The text a line of the file is emitted as
Canonical(l) ==
    IF starts_with(l, <<"#", "W", "A", "V">>)
        THEN KeysoundToString(KeysoundFromLine(l).ks)
        ELSE LineToString(LineNew(l))

\* C8: the document built by from_path is emitted by to_bytes with its lines in
\* the order of the file, none moved, dropped or duplicated.
C8_OrderPreserved ==
    (pc = "menu" /\ last = NoLast) =>
        to_bytes(bms) = join([i \in DOMAIN lines(disk) |-> Canonical(lines(disk)[i])], <<"\n">>)

\* The backing file can be loaded: it is there and every declaration parses
Loadable(file_exists, bytes) ==
    /\ file_exists
    /\ \A i \in DOMAIN lines(bytes) :
          starts_with(lines(bytes)[i], <<"#", "W", "A", "V">>)
              => KeysoundFromLine(lines(bytes)[i]).st = "Ok"

Regions(doc) == <<doc.head, doc.keysounds, doc.tail>>

\* C12: after bms.reload() the call has returned Ok or Err, never ended the
\* program; on Ok head, keysounds and tail are those of a fresh parse of the
\* backing file, on Err all three are empty; a file that cannot be loaded gives
\* Err, so the command loop sees the error.
C12_ReloadSwapOrDiscard ==
    last.reloaded.called =>
        /\ last.reloaded.doc.st \in {"Ok", "Err"}
        /\ last.reloaded.doc.st = "Ok" =>
              /\ Loadable(last.reloaded.file_exists, last.reloaded.bytes)
              /\ Regions(last.reloaded.doc)
                    = Regions(from_path(last.reloaded.file_exists, last.reloaded.bytes))
        /\ last.reloaded.doc.st = "Err" => Regions(last.reloaded.doc) = Regions(EmptyDoc)
        /\ ~Loadable(last.reloaded.file_exists, last.reloaded.bytes)
              => last.reloaded.doc.st = "Err"

Decodes(strs) == \A i \in DOMAIN strs : as_id(strs[i]) # Err

Declares(doc, strs) == \A i \in DOMAIN strs : has_keysound(doc, as_id(strs[i]))

\* The command l had a typed ID that does not decode, a reload that failed, or
\* a requested ID without a declaration
CommandFailed(l) ==
    \/ l.reloaded.called /\ l.reloaded.doc.st # "Ok"
    \/ /\ l.cmd = "Replace"
       /\ \/ as_id(l.new_id_line) = Err
          \/ ~Decodes(l.id_list)
          \/ l.reloaded.called /\ ~has_keysound(l.reloaded.doc, as_id(l.new_id_line))
          \/ l.reloaded.called /\ ~Declares(l.reloaded.doc, l.id_list)

\* The command l is a Replace that got through both prompts and the validation
ReplaceCompleted(l) ==
    /\ l.cmd = "Replace"
    /\ l.id_list # <<>>
    /\ ~CommandFailed(l)

\* The command l is a RemoveUnusedKeysounds that found unused declarations and
\* whose removal the user confirmed
RemovalConfirmed(l) ==
    /\ l.cmd = "RemoveUnusedKeysounds"
    /\ l.unused # <<>>
    /\ l.outcome # "declined"
    /\ ~CommandFailed(l)

FileTouched == disk' # disk \/ exists' # exists

\* A step of the user, not of the program
UserStep == UNCHANGED <<bms, pc, pending, last>>

\* C13, as stated: a command in which an ID failed to decode, a reload failed or
\* a requested ID had no declaration leaves the chart file untouched and does not
\* call save, and the program writes the file only in a completed Replace.
C13_WriteOnlyInReplace ==
    [][ ~UserStep =>
            /\ CommandFailed(last') => (~FileTouched /\ ~last'.save_called)
            /\ (FileTouched \/ last'.save_called) => ReplaceCompleted(last') ]_vars

\* C13, amended: a command in which an ID failed to decode, a reload failed or a
\* requested ID had no declaration leaves the chart file untouched and does not
\* call save, and the program writes the file only in a completed Replace or in
\* a RemoveUnusedKeysounds whose removal the user confirmed.
C13_WriteOnlyInRewriteOrRemoval ==
    [][ ~UserStep =>
            /\ CommandFailed(last') => (~FileTouched /\ ~last'.save_called)
            /\ (FileTouched \/ last'.save_called) =>
                  (ReplaceCompleted(last') \/ RemovalConfirmed(last')) ]_vars

C13_Witness ==
    /\ last.cmd = "RemoveUnusedKeysounds" /\ last.outcome = "saved"
    /\ last.save_called
    /\ exists /\ disk # last.reloaded.bytes
    /\ disk = to_bytes(bms)

\* C14: a Replace that got through the validation and saved has kept the
\* declaration of its new ID, also when the list of old IDs holds the new ID,
\* so every slot of a Note Line of tail that holds the new ID refers to a
\* declared keysound.
C14_TargetDeclarationKept ==
    (last.cmd = "Replace" /\ last.save_called) =>
        /\ has_keysound(bms, last.new_id)
        /\ \A i \in DOMAIN bms.tail :
              last.new_id \in SlotsOf(bms.tail[i]) => has_keysound(bms, last.new_id)

====
